---- MODULE Spec2Model ----
(***************************************************************************)
(* Model of src/validate_db.py: validate_database() run against a          *)
(* PostgreSQL database whose catalogs (public tables, materialized views,   *)
(* pg_inherits) are the environment.  Every psycopg2 call is one step that  *)
(* may raise; Python's local-variable binding of `connection` and `cursor`  *)
(* is modelled explicitly because the finally block reads both.             *)
(***************************************************************************)
EXTENDS Integers, Sequences, FiniteSets, TLC

VARIABLES
    db,            \* the database: tables of schema public, pg_matviews,
                   \* and pg_inherits rows <<child, parent>>
    clock,         \* server clock, read by NOW()
    pc,            \* position of validate_database
    qi,            \* index of the query being executed / fetched
    connection,    \* local `connection`: "unbound", "open", "closed"
    cursor,        \* local `cursor`: "unbound", "open", "closed"
    result,        \* rows pending on the cursor after execute
    exc,           \* message of the exception in flight ("" when none)
    raised,        \* exception that left validate_database ("" when none)
    out,           \* lines printed on standard output by this run
    log,           \* history: driver calls issued by this run, in order
    steps,         \* history: number of steps taken by this run
    failAt,        \* history: the call of this run that raised, and why
    reran,         \* TRUE once the script has been started a second time
    prevOut,       \* out of the previous run
    prevFailAt     \* failAt of the previous run

vars == <<db, clock, pc, qi, connection,
          cursor, result, exc, raised, out, log, steps, failAt, reran,
          prevOut, prevFailAt>>

\* Number of candidate child tables in the inheritance catalog.
MaxChildren == 2

Children == 1..MaxChildren

----------------------------------------------------------------------------
\* Fixed names of the script.

required_tables == <<"sequences", "model_predictions", "model_performance">>

matview_name == "recent_model_performance"

partition_parents == <<"sequences", "model_predictions">>

Range(s) == {s[i] : i \in 1..Len(s)}

Query(kind, name) == [kind |-> kind, name |-> name]

TableQueries == [i \in 1..Len(required_tables) |-> Query("table", required_tables[i])]

QueriesMvLast == <<Query("now", "now")>> \o TableQueries
                 \o <<Query("partitions", "partitions"), Query("matview", matview_name)>>

\* The statements of the try block, in program order.
Queries == <<Query("now", "now")>> \o TableQueries
           \o <<Query("matview", matview_name), Query("partitions", "partitions")>>

----------------------------------------------------------------------------
\* Rows, lines and formatting.

Row(col, b, n) == [col |-> col, b |-> b, n |-> n]

Line(kind, name, val, num) == [kind |-> kind, name |-> name, val |-> val, num |-> num]

\* str() of a Python bool, as an f-string renders it.
BoolStr(b) == IF b THEN "True" ELSE "False"

TimeLine(row) == Line("time", "now", "", row.n)

ExistsLineStamped(q, row) == Line(q.kind, q.name, BoolStr(row.b), clock)

ExistsLine(q, row) == Line(q.kind, q.name, BoolStr(row.b), 0)

PartitionHeader == Line("header", "partitions", "", 0)

PartitionLine(row) == Line("partition", "child", "", row.n)

ErrorLine(msg) == Line("error", "", msg, 0)

----------------------------------------------------------------------------
\* What the server answers to each statement.

Min(S) == CHOOSE x \in S : \A y \in S : x <= y

RECURSIVE Ascending(_)
Ascending(S) == IF S = {} THEN <<>>
                ELSE <<Min(S)>> \o Ascending(S \ {Min(S)})

AllChildRows(parent) ==
    LET kids == {r[1] : r \in db.inherits}
        s == Ascending(kids)
    IN [i \in 1..Len(s) |-> Row("child", FALSE, s[i])]

\* SELECT inhrelid::regclass FROM pg_inherits WHERE inhparent = parent
ChildRows(parent) ==
    LET kids == {r[1] : r \in {x \in db.inherits : x[2] = parent}}
        s == Ascending(kids)
    IN [i \in 1..Len(s) |-> Row("child", FALSE, s[i])]

\* 'name'::regclass raises when no relation of that name can be resolved;
\* the search path is taken to hold schema public only.
RegclassResolves(name) == name \in db.tables

Answer(err, rows) == [err |-> err, rows |-> rows]

ServerAnswer(q) ==
    CASE q.kind = "now" -> Answer("", <<Row("now", FALSE, clock)>>)
      [] q.kind = "table" -> Answer("", <<Row("exists", q.name \in db.tables, 0)>>)
      [] q.kind = "matview" -> Answer("", <<Row("exists", q.name \in db.matviews, 0)>>)
      [] q.kind = "partitions" ->
            IF \A i \in 1..Len(partition_parents) : RegclassResolves(partition_parents[i])
            THEN Answer("", ChildRows(partition_parents[1]) \o ChildRows(partition_parents[2]))
            ELSE Answer("relation does not exist", <<>>)

DropsMatview(q, d) ==
    IF q.kind = "matview" THEN [d EXCEPT !.matviews = @ \ {q.name}] ELSE d

\* Effect of a statement on the database: every statement is a SELECT.
DbAfter(q, d) == d

\* Lines printed once the rows of statement q have been fetched.
Printed(q, rows) ==
    CASE q.kind = "now" -> <<TimeLine(rows[1])>>
      [] q.kind \in {"table", "matview"} -> <<ExistsLine(q, rows[1])>>
      [] q.kind = "partitions" ->
            <<PartitionHeader>> \o [i \in 1..Len(rows) |-> PartitionLine(rows[i])]

----------------------------------------------------------------------------
Call(op, q) == [op |-> op, q |-> q]

Failure(op, q, cause) == [op |-> op, q |-> q, cause |-> cause]

NoFail == Failure("none", "", "")

Terminal == {"returned", "raised"}

Database(T, M, I) == [tables |-> T, matviews |-> M, inherits |-> I]

\* Every catalog content the checks can tell apart; a pg_inherits row names
\* an existing parent.
Databases ==
    UNION { { Database(T, M, I) : M \in SUBSET {matview_name},
                                  I \in SUBSET (Children \X T) } :
            T \in SUBSET Range(required_tables) }

Init ==
    /\ db \in Databases
    /\ clock = 0
    /\ pc = "connect"
    /\ qi = 1
    /\ connection = "unbound"
    /\ cursor = "unbound"
    /\ result = <<>>
    /\ exc = ""
    /\ raised = ""
    /\ out = <<>>
    /\ log = <<>>
    /\ steps = 0
    /\ failAt = NoFail
    /\ reran = FALSE
    /\ prevOut = <<>>
    /\ prevFailAt = NoFail

\* An exception raised inside the try block transfers control to the handler.
Raise(msg) ==
    /\ exc' = msg
    /\ pc' = "except"

Step == steps' = steps + 1

\* line 12: connection = psycopg2.connect(...)
Connect ==
    /\ pc = "connect"
    /\ log' = Append(log, Call("connect", ""))
    /\ Step
    /\ \/ /\ connection' = "open"
          /\ pc' = "cursor"
          /\ UNCHANGED <<exc, failAt>>
       \/ /\ Raise("connection failed")
          /\ failAt' = Failure("connect", "", "environment")
          /\ UNCHANGED connection
    /\ UNCHANGED <<db, clock, qi, cursor, result, raised, out, reran,
                   prevOut, prevFailAt>>

\* line 13: cursor = connection.cursor()
CreateCursor ==
    /\ pc = "cursor"
    /\ log' = Append(log, Call("cursor", ""))
    /\ Step
    /\ \/ /\ cursor' = "open"
          /\ pc' = "execute"
          /\ UNCHANGED <<exc, failAt>>
       \/ /\ Raise("cursor failed")
          /\ failAt' = Failure("cursor", "", "environment")
          /\ UNCHANGED cursor
    /\ UNCHANGED <<db, clock, qi, connection, result, raised, out, reran,
                   prevOut, prevFailAt>>

\* lines 15, 21, 31, 40: cursor.execute(...)
Execute ==
    /\ pc = "execute"
    /\ LET q == Queries[qi]
           a == ServerAnswer(q)
       IN /\ log' = Append(log, Call("execute", q.name))
          /\ Step
          /\ db' = DbAfter(q, db)
          /\ \/ /\ a.err = ""
                /\ result' = a.rows
                /\ pc' = "fetch"
                /\ UNCHANGED <<exc, failAt>>
             \/ /\ a.err # ""
                /\ Raise(a.err)
                /\ failAt' = Failure("execute", q.name, "server")
                /\ UNCHANGED result
             \/ /\ Raise("query failed")
                /\ failAt' = Failure("execute", q.name, "environment")
                /\ UNCHANGED result
    /\ UNCHANGED <<clock, qi, connection, cursor, raised, out, reran,
                   prevOut, prevFailAt>>

\* lines 16-17, 28-29, 37-38, 49-52: fetch the rows and print them
Fetch ==
    /\ pc = "fetch"
    /\ LET q == Queries[qi]
       IN /\ log' = Append(log, Call("fetch", q.name))
          /\ Step
          /\ \/ /\ out' = out \o Printed(q, result)
                /\ result' = <<>>
                /\ IF qi < Len(Queries)
                   THEN /\ qi' = qi + 1
                        /\ pc' = "execute"
                   ELSE /\ pc' = "finally"
                        /\ UNCHANGED qi
                /\ UNCHANGED <<exc, failAt>>
             \/ /\ Raise("fetch failed")
                /\ failAt' = Failure("fetch", q.name, "environment")
                /\ UNCHANGED <<out, result, qi>>
    /\ UNCHANGED <<db, clock, connection, cursor, raised, reran,
                   prevOut, prevFailAt>>

ExceptReraise ==
    /\ pc = "except"
    /\ out' = Append(out, ErrorLine(exc))
    /\ pc' = "raised"
    /\ raised' = exc
    /\ exc' = ""
    /\ Step
    /\ UNCHANGED <<db, clock, qi, connection, cursor, result, log,
                   failAt, reran, prevOut, prevFailAt>>

ExceptRetry ==
    /\ pc = "except"
    /\ out' = Append(out, ErrorLine(exc))
    /\ exc' = ""
    /\ pc' = IF connection = "unbound" /\ Len(log) < 2 THEN "connect" ELSE "finally"
    /\ Step
    /\ UNCHANGED <<db, clock, qi, connection, cursor, result, raised, log,
                   failAt, reran, prevOut, prevFailAt>>

\* lines 54-55: except Exception as e: print(...)
Except ==
    /\ pc = "except"
    /\ out' = Append(out, ErrorLine(exc))
    /\ exc' = ""
    /\ pc' = "finally"
    /\ Step
    /\ UNCHANGED <<db, clock, qi, connection, cursor, result, raised, log,
                   failAt, reran, prevOut, prevFailAt>>

FinallyGuarded ==
    /\ pc = "finally"
    /\ Step
    /\ pc' = "returned"
    /\ cursor' = IF cursor = "open" THEN "closed" ELSE cursor
    /\ connection' = IF connection = "open" THEN "closed" ELSE connection
    /\ log' = log \o (IF cursor = "open" THEN <<Call("close_cursor", "")>> ELSE <<>>)
                  \o (IF connection = "open" THEN <<Call("close_connection", "")>> ELSE <<>>)
    /\ UNCHANGED <<db, clock, qi, result, exc, raised, out, failAt, reran,
                   prevOut, prevFailAt>>

\* lines 56-59: finally: if connection: cursor.close(); connection.close()
\* Reading a local that was never bound raises UnboundLocalError.
Finally ==
    /\ pc = "finally"
    /\ Step
    /\ IF connection = "unbound"
       THEN /\ raised' = "UnboundLocalError"
            /\ pc' = "raised"
            /\ UNCHANGED <<connection, cursor, log>>
       ELSE IF cursor = "unbound"
       THEN /\ raised' = "UnboundLocalError"
            /\ pc' = "raised"
            /\ UNCHANGED <<connection, cursor, log>>
       ELSE /\ cursor' = "closed"
            /\ connection' = "closed"
            /\ log' = log \o <<Call("close_cursor", ""), Call("close_connection", "")>>
            /\ pc' = "returned"
            /\ UNCHANGED raised
    /\ UNCHANGED <<db, clock, qi, result, exc, out, failAt, reran,
                   prevOut, prevFailAt>>

\* line 61, a second time: the script is started again on the same database;
\* the server clock may have advanced in between.
Rerun ==
    /\ pc \in Terminal
    /\ ~reran
    /\ reran' = TRUE
    /\ prevOut' = out
    /\ prevFailAt' = failAt
    /\ clock' \in {clock, clock + 1}
    /\ pc' = "connect"
    /\ qi' = 1
    /\ connection' = "unbound"
    /\ cursor' = "unbound"
    /\ result' = <<>>
    /\ exc' = ""
    /\ raised' = ""
    /\ out' = <<>>
    /\ log' = <<>>
    /\ steps' = 0
    /\ failAt' = NoFail
    /\ UNCHANGED db

RunNext == Connect \/ CreateCursor \/ Execute \/ Fetch \/ Except \/ Finally

Next == Connect \/ CreateCursor \/ Execute \/ Fetch \/ Except \/ Finally \/ Rerun

Spec == Init /\ [][Next]_vars

----------------------------------------------------------------------------
\* Helpers of the properties.

IsError(l) == l.kind = "error"

IsExecute(c) == c.op = "execute"

IsConnect(c) == c.op = "connect"

ErrorLines == {i \in 1..Len(out) : IsError(out[i])}

Executes == SelectSeq(log, IsExecute)

\* The order of the checks, as section 2 of the specification lists them.
CheckOrder == <<"now", "sequences", "model_predictions", "model_performance",
                "recent_model_performance", "partitions">>

ListedRows == {r \in db.inherits : r[2] \in {"sequences", "model_predictions"}}

FullDatabase ==
    /\ {"sequences", "model_predictions", "model_performance"} \subseteq db.tables
    /\ "recent_model_performance" \in db.matviews
    /\ \E r \in db.inherits : r[2] = "sequences"
    /\ \E r \in db.inherits : r[2] = "model_predictions"

MissingTables == {"sequences", "model_predictions", "model_performance"} \ db.tables

StepBound == 2 * Len(CheckOrder) + 4

----------------------------------------------------------------------------
\* C1: when the connection attempt fails, validate_database prints an error
\* line carrying the connection failure text and returns normally; no
\* exception reaches the caller.
C1_ConnectFailureReturns ==
    (pc \in Terminal /\ failAt.op = "connect")
        => /\ pc = "returned"
           /\ raised = ""
           /\ \E i \in 1..Len(out) : out[i] = Line("error", "", "connection failed", 0)

\* C2: whenever a connection object was created, the connection is closed by
\* the time validate_database stops, and so is the cursor if one was created.
C2_ResourcesReleased ==
    (pc \in Terminal /\ connection # "unbound")
        => /\ connection = "closed"
           /\ cursor # "unbound" => cursor = "closed"

\* C3: with exactly one required table missing and nothing else failing, the
\* run prints False for that table, True for the other two, the
\* materialized-view line and the partition listing, and no error line.
C3_MissingTableOnlyReported ==
    (pc \in Terminal /\ failAt.cause # "environment" /\ Cardinality(MissingTables) = 1)
        => /\ \A t \in MissingTables :
                \E i \in 1..Len(out) : out[i] = Line("table", t, "False", 0)
           /\ \A t \in db.tables :
                \E i \in 1..Len(out) : out[i] = Line("table", t, "True", 0)
           /\ \E i \in 1..Len(out) : out[i].kind = "matview"
           /\ \E i \in 1..Len(out) : out[i].kind = "header"
           /\ ErrorLines = {}

\* C4: on a database with the three tables, the materialized view and a child
\* under each parent, a run in which nothing fails prints exactly the time
\* line, the three table lines reporting True in list order, the view line
\* reporting True, the partition header, and one line per child of either
\* parent.
C4_FullOutput ==
    (pc \in Terminal /\ failAt = NoFail /\ FullDatabase)
        => /\ Len(out) = 6 + Cardinality(ListedRows)
           /\ out[1] = Line("time", "now", "", clock)
           /\ out[2] = Line("table", "sequences", "True", 0)
           /\ out[3] = Line("table", "model_predictions", "True", 0)
           /\ out[4] = Line("table", "model_performance", "True", 0)
           /\ out[5] = Line("matview", "recent_model_performance", "True", 0)
           /\ out[6] = Line("header", "partitions", "", 0)
           /\ \A i \in 7..Len(out) : out[i].kind = "partition"
           /\ \A c \in Children :
                Cardinality({i \in 7..Len(out) : out[i].num = c})
                    = Cardinality({r \in ListedRows : r[1] = c})

C4_Witness ==
    /\ pc = "returned"
    /\ failAt = NoFail
    /\ FullDatabase
    /\ Len(out) > 8
    /\ \E r \in db.inherits : r[2] = "model_performance"

\* C5: the steps of a run occur in the order connect, liveness query, table
\* checks in list order, materialized-view check, partition listing, release:
\* nothing is issued before the connection is open, a check is issued only
\* after the previous one has completed, and nothing is issued after the
\* cursor or the connection was closed.
C5_StepOrder ==
    /\ Len(Executes) <= Len(CheckOrder)
    /\ \A i \in 1..Len(Executes) : Executes[i].q = CheckOrder[i]
    /\ log # <<>> => log[1].op = "connect"
    /\ \A i \in 1..Len(log) :
          /\ log[i].op = "cursor" => i = 2
          /\ log[i].op = "execute" =>
                /\ i > 2
                /\ IF log[i].q = CheckOrder[1]
                   THEN log[i-1].op = "cursor"
                   ELSE /\ log[i-1].op = "fetch"
                        /\ \E k \in 2..Len(CheckOrder) :
                              /\ log[i].q = CheckOrder[k]
                              /\ log[i-1].q = CheckOrder[k-1]
          /\ log[i].op = "fetch" => (i > 1 /\ log[i-1] = Call("execute", log[i].q))
          /\ log[i].op \in {"close_cursor", "close_connection"} =>
                \A j \in (i+1)..Len(log) : log[j].op = "close_connection"
    /\ pc \in {"cursor", "execute", "fetch"} => connection = "open"
    /\ pc \in {"execute", "fetch"} => cursor = "open"
    /\ (connection = "closed" \/ cursor = "closed") => pc \in Terminal

C5_Witness ==
    /\ pc = "returned"
    /\ Len(Executes) = Len(CheckOrder)
    /\ log[Len(log)].op = "close_connection"

\* C6 as stated: two runs in succession against an unchanged database, the
\* same call (if any) failing in both, print identical output line for line.
C6_IdenticalOutput ==
    (reran /\ pc \in Terminal /\ failAt = prevFailAt) => out = prevOut

SameButTime(l, m) ==
    IF l.kind = "time" THEN m.kind = "time" ELSE l = m

\* C6 amended: two runs in succession against an unchanged database, the same
\* call (if any) failing in both, print the same lines in the same order
\* except for the time carried by the connection-successful line.
C6_IdenticalButTime ==
    (reran /\ pc \in Terminal /\ failAt = prevFailAt)
        => /\ Len(out) = Len(prevOut)
           /\ \A i \in 1..Len(out) : SameButTime(out[i], prevOut[i])

C6_Witness ==
    /\ reran
    /\ pc = "returned"
    /\ failAt = NoFail
    /\ prevFailAt = NoFail
    /\ Len(out) > 6
    /\ out # prevOut

\* C7: no step of a run changes the tables, the materialized views or the
\* inheritance relation of the database, on any path.
C7_DatabaseUnchanged == [][db' = db]_vars

C7_Witness ==
    /\ reran
    /\ pc = "returned"
    /\ prevFailAt.op = "execute"
    /\ Len(Executes) = Len(CheckOrder)

\* C8: when the connection succeeds and a query or a fetch raises, the
\* message is printed as an error line, the remaining checks are skipped,
\* cursor and connection are closed and validate_database returns normally.
C8_QueryFailureHandled ==
    /\ (failAt.op \in {"execute", "fetch"} /\ pc \in {"finally", "returned", "raised"})
          => /\ ErrorLines = {Len(out)}
             /\ out[Len(out)].val \in {"query failed", "fetch failed", "relation does not exist"}
             /\ \E i \in 1..Len(log) :
                   /\ log[i] = Call(failAt.op, failAt.q)
                   /\ \A j \in (i+1)..Len(log) : log[j].op \notin {"execute", "fetch"}
    /\ (failAt.op \in {"execute", "fetch"} /\ pc \in Terminal)
          => /\ pc = "returned"
             /\ raised = ""
             /\ cursor = "closed"
             /\ connection = "closed"

C8_Witness ==
    /\ pc = "returned"
    /\ failAt = Failure("fetch", "sequences", "environment")
    /\ Len(out) = 2

\* C9: when the connection attempt fails the connection variable is never
\* bound, and the cleanup raises a secondary error out of validate_database
\* in place of the connection error.
C9_UnboundConnectionRaises ==
    /\ failAt.op = "connect" => connection = "unbound"
    /\ (failAt.op = "connect" /\ pc \in Terminal)
          => /\ pc = "raised"
             /\ raised = "UnboundLocalError"

C9_Witness ==
    /\ pc = "raised"
    /\ failAt.op = "connect"
    /\ out = <<Line("error", "", "connection failed", 0)>>

\* C10: a run attempts the connection exactly once, issues each query at most
\* once, prints at most one error line and no result line after it, and stops
\* within a bounded number of steps.
C10_NoRetry ==
    /\ steps > 0 => Len(SelectSeq(log, IsConnect)) = 1
    /\ \A i, j \in 1..Len(Executes) : Executes[i].q = Executes[j].q => i = j
    /\ Cardinality(ErrorLines) <= 1
    /\ \A i \in ErrorLines : i = Len(out)
    /\ steps <= StepBound
    /\ pc \notin Terminal => ENABLED RunNext

C10_Witness ==
    /\ pc = "returned"
    /\ steps = StepBound
    /\ Cardinality(ErrorLines) = 1

====
